---- MODULE Spec2Model ----
(***************************************************************************)
(* Model of the spatial placement engine of HWAE: src/src/objects.py       *)
(* (ObjectHandler) and src/src/noisegen.py (NoiseGenerator).               *)
(*                                                                         *)
(* A grid is a function from cells <<x, z>> (x in 0..width-1, z in         *)
(* 0..length-1) to numbers, as the numpy arrays of shape (width, length).  *)
(* A requested radius is carried as a number of halves (r2 = 2 * radius)   *)
(* so that fractional radii and Python's round() and int() can be told     *)
(* apart.                                                                  *)
(***************************************************************************)
EXTENDS Integers, Sequences, FiniteSets, TLC

VARIABLES
    width,      \* terrain_handler.width
    length,     \* terrain_handler.length
    heights,    \* the terrain: heights[<<x, z>>] is terrain_handler.get_height(x, z)
    mask,       \* ObjectHandler._cached_object_mask (1 free, 0 occupied)
    objects,    \* the records handed to ob3_interface.add_object, in order
    last,       \* outcome of the latest operation (what it returned or did)
    calls,      \* number of operations issued so far
    failed,     \* TRUE once an operation has raised (the run is over)
    arg,        \* the argument of a mask computation called on its own
    map_config, \* the run's MapConfig (its seed), None when no run is modelled
    noise_generator,
                \* the global generators np.random and random as the
                \* NoiseGenerator left them, None when the draws are left open
    earlier     \* an earlier run of the same configuration, kept to compare

vars == <<width, length, heights, mask, objects, last, calls, failed, arg,
          map_config, noise_generator, earlier>>

----------------------------------------------------------------------------
(* Bounds of the model *)

\* largest side of the small grids
MaxDim == 3
\* operations issued in one run
MaxCalls == 2
\* width of the one-row strip terrain on which the carrier fits
StripWidth == 54
\* grids of at most this many cells take every terrain over Heights
MaxFullCells == 6

(* Program constants *)

\* default cutoff_height of the land, water and coast masks
DefaultCutoff == -20
\* default radius_percent of the coast mask
DefaultRadiusPercent == 30
\* required_radius of the carrier
CarrierRadius == 30
\* y of the carrier's record
CarrierY == 15

LAND == "LAND"
WATER == "WATER"
COAST == "COAST"
LocationEnum == {LAND, WATER, COAST}

None == "None"

\* terrain heights the model draws from: water, land below zero, zero, land
Heights == {-30, -10, 0, 10}
\* requested radii, in halves: 0.5, 1, 1.5, 2, 3
Radii2 == {1, 2, 3, 4, 6}
\* vertical offsets
Offsets == {0, 15}
\* cutoff heights and radius percentages of the mask computations
Cutoffs == {-20, -10, 0}
Percents == {0, 30, 50, 100}

----------------------------------------------------------------------------
(* Arithmetic of the host language *)

Max(a, b) == IF a >= b THEN a ELSE b
Min(a, b) == IF a <= b THEN a ELSE b

\* Python round() of the float r2/2: ties go to the even integer
PyRound(r2) ==
    IF r2 % 2 = 0 THEN r2 \div 2
    ELSE IF (r2 \div 2) % 2 = 0 THEN r2 \div 2 ELSE (r2 \div 2) + 1

\* Python int() of the non-negative float r2/2: truncation
PyInt(r2) == r2 \div 2

----------------------------------------------------------------------------
(* Grids *)

Cells == (0 .. width - 1) \X (0 .. length - 1)

CellsOf(w, l) == (0 .. w - 1) \X (0 .. l - 1)

\* a numpy array holds its values: the function is evaluated once, cell by
\* cell, when the array is built (the result is the same function)
np_array(f) == f @@ <<>>

\* the one element of a set of one element; an operator that reads an array
\* many times binds it first, as in The({ ... a ... : a \in {arr}}), so that
\* the array is computed once where it is passed and not at each read
The(S) == CHOOSE x \in S : TRUE

\* np.ones((width, length))
Ones == [c \in Cells |-> 1]

\* np.zeros((width, length))
Zeros == [c \in Cells |-> 0]

\* terrain_handler.get_height(x, z)
get_height(x, z) == heights[<<x, z>>]

\* np.any(grid)
np_any(grid) == \E g \in {grid} : \E c \in DOMAIN g : g[c] # 0

\* a * b, cell by cell
Mul(a, b) ==
    The({np_array([c \in DOMAIN p |-> p[c] * q[c]]) : p \in {a}, q \in {b}})

\* the bounds of the circle without the lower clip at 0: a negative index
\* wraps to the opposite edge of the array
in_radius_unclipped(c, x, z, radius) ==
    LET x_max == Min(width, x + radius + 1)
        z_max == Min(length, z + radius + 1)
        radius_sq == radius * radius
    IN  \E i \in (x - radius) .. (x_max - 1), j \in (z - radius) .. (z_max - 1) :
            /\ i >= -width /\ j >= -length
            /\ (i - x) * (i - x) + (j - z) * (j - z) <= radius_sq
            /\ c[1] = i % width
            /\ c[2] = j % length

\* the cells ObjectHandler._update_mask_grid_with_radius writes: the clipped
\* bounding square of the circle, then the squared distance
in_radius(c, x, z, radius) ==
    LET x_min == Max(0, x - radius)
        x_max == Min(width, x + radius + 1)
        z_min == Max(0, z - radius)
        z_max == Min(length, z + radius + 1)
        radius_sq == radius * radius
    IN  /\ c[1] \in x_min .. (x_max - 1)
        /\ c[2] \in z_min .. (z_max - 1)
        /\ (c[1] - x) * (c[1] - x) + (c[2] - z) * (c[2] - z) <= radius_sq

\* the index pairs [i, j] the two loops of _update_mask_grid_with_radius write
written_indices(x, z, radius) ==
    LET x_min == Max(0, x - radius)
        x_max == Min(width, x + radius + 1)
        z_min == Max(0, z - radius)
        z_max == Min(length, z + radius + 1)
        radius_sq == radius * radius
    IN  {p \in (x_min .. (x_max - 1)) \X (z_min .. (z_max - 1)) :
            (p[1] - x) * (p[1] - x) + (p[2] - z) * (p[2] - z) <= radius_sq}

\* ObjectHandler._update_mask_grid_with_radius
update_mask_grid_with_radius(location_grid, x, z, radius, set_to) ==
    The({np_array([c \in DOMAIN grid |->
            IF in_radius(c, x, z, radius) THEN set_to ELSE grid[c]]) :
         grid \in {location_grid}})

\* the cached mask rebuilt from a fresh grid for the new object alone
update_cached_object_mask_rebuilt(x, z, required_radius) ==
    update_mask_grid_with_radius([c \in Cells |-> 1], x, z, required_radius, 0)

\* ObjectHandler._update_cached_object_mask: the new value of the cached mask
update_cached_object_mask(x, z, required_radius) ==
    update_mask_grid_with_radius(mask, x, z, required_radius, 0)

\* 1 when the two cells hold different values, as (a != b).astype(int)
Differs(input_mask, c, d) == IF input_mask[c] # input_mask[d] THEN 1 ELSE 0

\* the transitions added to the later cell of each pair only
get_binary_transition_mask_one_sided(input_mask) ==
    The({np_array([c \in DOMAIN m |->
            IF \/ c[2] >= 1 /\ m[c] # m[<<c[1], c[2] - 1>>]
               \/ c[1] >= 1 /\ m[c] # m[<<c[1] - 1, c[2]>>]
            THEN 1 ELSE 0]) :
         m \in {input_mask}})

\* ObjectHandler._get_binary_transition_mask
get_binary_transition_mask(input_mask) ==
    LET horizontal(m, c) ==
            (IF c[2] >= 1
             THEN Differs(m, c, <<c[1], c[2] - 1>>) ELSE 0)
          + (IF c[2] <= length - 2
             THEN Differs(m, <<c[1], c[2] + 1>>, c) ELSE 0)
        vertical(m, c) ==
            (IF c[1] >= 1
             THEN Differs(m, c, <<c[1] - 1, c[2]>>) ELSE 0)
          + (IF c[1] <= width - 2
             THEN Differs(m, <<c[1] + 1, c[2]>>, c) ELSE 0)
    IN  The({np_array([c \in DOMAIN m |->
                IF horizontal(m, c) + vertical(m, c) > 0 THEN 1 ELSE 0]) :
             m \in {input_mask}})

\* an object mask that was never narrowed
get_object_mask_fresh == [c \in Cells |-> 1]

\* ObjectHandler._get_object_mask
get_object_mask == mask

\* the land mask with a height equal to the cutoff counted as land
get_land_mask_at_or_above(cutoff_height) ==
    np_array([c \in Cells |->
        IF get_height(c[1], c[2]) >= cutoff_height THEN 1 ELSE 0])

\* ObjectHandler._get_land_mask
get_land_mask(cutoff_height) ==
    np_array([c \in Cells |->
        IF get_height(c[1], c[2]) > cutoff_height THEN 1 ELSE 0])

\* ObjectHandler._get_water_mask
get_water_mask(cutoff_height) ==
    The({np_array([c \in Cells |-> 1 - land_mask[c]]) :
         land_mask \in {get_land_mask(cutoff_height)}})

\* the terrain binarized at height zero (negative to 0, positive to 1)
binary_terrain ==
    np_array([c \in Cells |->
        IF heights[c] < 0 THEN 0 ELSE IF heights[c] > 0 THEN 1 ELSE heights[c]])

\* int(radius_percent / 100 * max(width, length))
coast_radius(radius_percent) ==
    (radius_percent * Max(width, length)) \div 100

\* the loop "for x, for z: if edge_mask[x, z] == 1: grid = carve(grid, x, z,
\* radius, set_to)" of _get_coast_mask and _find_location: edge_mask is fixed
\* before the loop and every carve writes the same set_to, so a cell ends as
\* set_to exactly when some carve of the loop writes it
carve_around_edges(grid, edge_mask, radius, set_to) ==
    The({np_array([c \in DOMAIN g |->
            IF \E e \in DOMAIN em :
                   em[e] = 1 /\ in_radius(c, e[1], e[2], radius)
            THEN set_to
            ELSE g[c]]) :
         g \in {grid}, em \in {edge_mask}})

\* the coast mask without the multiplication by the water mask
get_coast_mask_unmasked(cutoff_height, radius_percent) ==
    carve_around_edges(Zeros, get_binary_transition_mask(binary_terrain),
                       coast_radius(radius_percent), 1)

\* ObjectHandler._get_coast_mask
get_coast_mask(cutoff_height, radius_percent) ==
    LET edge_mask == get_binary_transition_mask(binary_terrain)
        radius == coast_radius(radius_percent)
        flooded == carve_around_edges(Zeros, edge_mask, radius, 1)
    IN  Mul(flooded, get_water_mask(cutoff_height))

\* the reference mask chosen without looking at the category: always water
where_mask_water_only(where) == get_water_mask(DefaultCutoff)

\* the reference mask find_location selects for a category
where_mask(where) ==
    IF where = WATER THEN get_water_mask(DefaultCutoff)
    ELSE IF where = COAST THEN get_coast_mask(DefaultCutoff, DefaultRadiusPercent)
    ELSE get_land_mask(DefaultCutoff)

\* max(1, round(required_radius))
rounded_radius(r2) == Max(1, PyRound(r2))

\* the erosion loop carving the full radius instead of half of it
eroded_mask_full_radius(where, r2) ==
    LET candidates == Mul(where_mask(where), get_object_mask)
        required_radius == rounded_radius(r2)
        edge_mask == get_binary_transition_mask(candidates)
    IN  carve_around_edges(candidates, edge_mask, required_radius, 0)

\* the erosion loop left out
eroded_mask_no_erosion(where, r2) ==
    Mul(where_mask(where), get_object_mask)

\* the erosion made on the category alone, the occupancy applied afterwards
eroded_mask_category_only(where, r2) ==
    LET required_radius == rounded_radius(r2)
        edge_mask == get_binary_transition_mask(where_mask(where))
    IN  Mul(carve_around_edges(where_mask(where), edge_mask,
                               required_radius \div 2, 0),
            get_object_mask)

\* the mask of ObjectHandler._find_location after the erosion loop
eroded_mask(where, r2) ==
    LET candidates == Mul(where_mask(where), get_object_mask)
        required_radius == rounded_radius(r2)
        edge_mask == get_binary_transition_mask(candidates)
    IN  carve_around_edges(candidates, edge_mask, required_radius \div 2, 0)

\* the entries returned as (z, x)
possible_values_transposed(arr) ==
    UNION {{<<c[2], c[1]>> : c \in {d \in DOMAIN a : a[d] > 0}} : a \in {arr}}

\* NoiseGenerator.select_random_entry_from_2d_array: the entries it can return
possible_values(arr) == UNION {{c \in DOMAIN a : a[c] > 0} : a \in {arr}}

\* ObjectHandler._find_location: the set of results it can return
find_location(where, r2) ==
    UNION {IF np_any(m) THEN possible_values(m) ELSE {None} :
           m \in {eroded_mask(where, r2)}}

----------------------------------------------------------------------------
(* Terrains *)

\* a terrain of base height hb with the rectangle [x0, x1] x [z0, z1] at hr
RectTerrain(w, l, hb, hr, x0, x1, z0, z1) ==
    [c \in CellsOf(w, l) |->
        IF c[1] \in x0 .. x1 /\ c[2] \in z0 .. z1 THEN hr ELSE hb]

SmallTerrains(w, l) ==
    { RectTerrain(w, l, q[1], q[2], q[3], q[4], q[5], q[6]) :
        q \in { p \in Heights \X Heights \X (0 .. w - 1) \X (0 .. w - 1)
                        \X (0 .. l - 1) \X (0 .. l - 1) :
                    p[3] <= p[4] /\ p[5] <= p[6] } }

\* the one-row strip: deep water on the first 17 cells, land beyond
StripTerrain == [c \in CellsOf(StripWidth, 1) |-> IF c[1] <= 16 THEN -30 ELSE 10]

Init ==
    /\ \/ /\ width \in 2 .. MaxDim
          /\ length \in 2 .. MaxDim
          /\ heights \in SmallTerrains(width, length)
       \/ /\ width = StripWidth
          /\ length = 1
          /\ heights = StripTerrain
    /\ mask = [c \in CellsOf(width, length) |-> 1]
    /\ objects = <<>>
    /\ last = [op |-> "init"]
    /\ calls = 0
    /\ failed = FALSE
    /\ arg = None
    /\ map_config = None
    /\ noise_generator = None
    /\ earlier = None

----------------------------------------------------------------------------
(* Operations *)

\* the run goes on: nothing has raised, and the model issues no more than
\* MaxCalls operations
Running == ~failed /\ calls < MaxCalls

\* Team of src/src/objects.py
PLAYER == "PLAYER"
ENEMY == "ENEMY"
NEUTRAL == "NEUTRAL"

\* one call of ObjectHandler._find_location(where, required_radius): what it
\* returns, kept in last; it changes nothing of the handler
find_location_called(where, r2) ==
    /\ \E loc \in find_location(where, r2) :
          last' = [op |-> "find", where |-> where, r2 |-> r2, loc |-> loc]
    /\ UNCHANGED <<mask, objects, failed>>

\* an unpacking that accepts None and goes on
unpack_never_raises(returned) == FALSE

\* "x, z = returned" raises TypeError when the search returned None
unpack_raises(returned) == returned = None

\* ObjectHandler.add_carrier: one call
add_carrier ==
    \E loc \in find_location(COAST, 2 * CarrierRadius) :
        IF loc = None
        THEN \* x, z = None raises TypeError
             /\ failed' = unpack_raises(loc)
             /\ last' = [op |-> "carrier", loc |-> None, placed |-> FALSE]
             /\ UNCHANGED <<mask, objects>>
        ELSE LET x == loc[1]
                 z == loc[2]
             IN  /\ mask' = update_cached_object_mask(x, z, CarrierRadius)
                 /\ objects' = Append(objects,
                       [object_type |-> "Carrier",
                        location |-> <<z, CarrierY, x>>,
                        team |-> PLAYER,
                        \* arctan2(center_z - z, center_x - x), as the
                        \* doubled vector <<dz, dx>> it is the argument of
                        y_rotation |-> <<length - 2 * z, width - 2 * x>>,
                        required_radius2 |-> 2 * CarrierRadius,
                        \* what the search returned and what was carved
                        cell |-> loc,
                        marked |-> <<x, z>>,
                        carved |-> CarrierRadius])
                 /\ last' = [op |-> "carrier", loc |-> loc, placed |-> TRUE]
                 /\ UNCHANGED failed

\* a water check that never skips
is_submerged_never(height, y_offset) == FALSE

\* the water check made against the land cutoff, without the offset
is_submerged_below_cutoff(height, y_offset) == height < DefaultCutoff

\* the water check of add_object_on_land_random: height + y_offset < 0
is_submerged(height, y_offset) == height + y_offset < 0

\* ObjectHandler.add_object_on_land_random(object_type, team=team,
\* y_offset=y_offset, required_radius=r2 / 2): one call
add_object_on_land_random(object_type, team, y_offset, r2) ==
    /\ \E returnval \in find_location(LAND, r2) :
          IF returnval = None
          THEN /\ last' = [op |-> "land", r2 |-> r2, loc |-> None,
                           y_offset |-> y_offset, placed |-> FALSE]
               /\ UNCHANGED <<mask, objects>>
          ELSE LET z == returnval[1]
                   x == returnval[2]
                   height == get_height(z, x)
               IN  IF is_submerged(height, y_offset)
                   THEN /\ last' = [op |-> "land", r2 |-> r2, loc |-> returnval,
                                    y_offset |-> y_offset, placed |-> FALSE]
                        /\ UNCHANGED <<mask, objects>>
                   ELSE /\ mask' = update_cached_object_mask(x, z, PyInt(r2))
                        /\ objects' = Append(objects,
                              [object_type |-> object_type,
                               location |-> <<x, height + y_offset, z>>,
                               team |-> team,
                               y_rotation |-> <<0, 0>>,
                               required_radius2 |-> r2,
                               cell |-> returnval,
                               marked |-> <<x, z>>,
                               carved |-> PyInt(r2)])
                        /\ last' = [op |-> "land", r2 |-> r2, loc |-> returnval,
                                    y_offset |-> y_offset, placed |-> TRUE]
    /\ UNCHANGED failed

\* what a call of the handler leaves alone when the draws are left open
Frame == UNCHANGED <<width, length, heights, arg, map_config, noise_generator, earlier>>

\* a standalone ObjectHandler._find_location call
FindLocation(where, r2) ==
    /\ Running
    /\ find_location_called(where, r2)
    /\ calls' = calls + 1
    /\ Frame

\* ObjectHandler.add_carrier
AddCarrier ==
    /\ Running
    /\ add_carrier
    /\ calls' = calls + 1
    /\ Frame

\* ObjectHandler.add_object_on_land_random
AddObjectOnLandRandom(y_offset, r2) ==
    /\ Running
    /\ add_object_on_land_random("Object", ENEMY, y_offset, r2)
    /\ calls' = calls + 1
    /\ Frame

Next ==
    \/ \E where \in LocationEnum, r2 \in Radii2 : FindLocation(where, r2)
    \/ AddCarrier
    \/ \E y_offset \in Offsets, r2 \in Radii2 : AddObjectOnLandRandom(y_offset, r2)

Spec == Init /\ [][Next]_vars

----------------------------------------------------------------------------
(* The mask computations called on their own *)

\* the state of a handler on which only a mask computation is called
Idle ==
    /\ mask = [c \in CellsOf(width, length) |-> 1]
    /\ objects = <<>>
    /\ last = [op |-> "init"]
    /\ calls = 0
    /\ failed = FALSE
    /\ map_config = None
    /\ noise_generator = None
    /\ earlier = None

\* every two-state grid of every shape up to MaxDim x MaxDim
InitEdge ==
    /\ width \in 1 .. MaxDim
    /\ length \in 1 .. MaxDim
    /\ arg \in [CellsOf(width, length) -> {0, 1}]
    /\ heights = [c \in CellsOf(width, length) |-> 0]
    /\ Idle

\* one call of ObjectHandler._get_binary_transition_mask(arg)
GetBinaryTransitionMask ==
    /\ last.op = "init"
    /\ last' = [op |-> "transition", input |-> arg,
                result |-> get_binary_transition_mask(arg)]
    /\ UNCHANGED <<width, length, heights, mask, objects, calls, failed, arg,
                 map_config, noise_generator, earlier>>

NextEdge == GetBinaryTransitionMask

SpecEdge == InitEdge /\ [][NextEdge]_vars

\* every terrain over Heights on the grids of at most MaxFullCells cells,
\* the terrains of one rectangle on the larger ones
CoastTerrains(w, l) ==
    IF w * l <= MaxFullCells THEN [CellsOf(w, l) -> Heights]
    ELSE SmallTerrains(w, l)

InitCoast ==
    /\ width \in 1 .. MaxDim
    /\ length \in 1 .. MaxDim
    /\ heights \in CoastTerrains(width, length)
    /\ arg = None
    /\ Idle

\* one call of ObjectHandler._get_coast_mask(cutoff_height, radius_percent)
GetCoastMask(cutoff_height, radius_percent) ==
    /\ last.op = "init"
    /\ last' = [op |-> "coast", cutoff_height |-> cutoff_height,
                radius_percent |-> radius_percent,
                result |-> get_coast_mask(cutoff_height, radius_percent)]
    /\ UNCHANGED <<width, length, heights, mask, objects, calls, failed, arg,
                 map_config, noise_generator, earlier>>

NextCoast ==
    \E cutoff_height \in Cutoffs, radius_percent \in Percents :
        GetCoastMask(cutoff_height, radius_percent)

SpecCoast == InitCoast /\ [][NextCoast]_vars

----------------------------------------------------------------------------
(* Vocabulary of the properties, stated on cells without the mask code *)

\* squared Euclidean distance between two cells
Dist2(c, d) == (c[1] - d[1]) * (c[1] - d[1]) + (c[2] - d[2]) * (c[2] - d[2])

\* the in-grid horizontal and vertical neighbours of a cell
Neighbours(c) ==
    {<<c[1] - 1, c[2]>>, <<c[1] + 1, c[2]>>, <<c[1], c[2] - 1>>, <<c[1], c[2] + 1>>}
        \cap Cells

\* the in-grid cells within distance radius of a cell
Disk(c, radius) == {d \in Cells : Dist2(c, d) <= radius * radius}

\* the cells that have a neighbour in T
Touching(T) == UNION {Neighbours(c) : c \in T}

\* the cells of S or of its complement that touch the other side
EdgeCells(S) == (Touching(S) \ S) \cup (Touching(Cells \ S) \cap S)

LandCells(cutoff) == {c \in Cells : heights[c] > cutoff}
WaterCells(cutoff) == {c \in Cells : ~(heights[c] > cutoff)}

\* the cells flanking the land/water line of the terrain binarized at zero
ShoreCells == EdgeCells({c \in Cells : heights[c] > 0})

\* water cells within int(p/100 * max(width, length)) of a shore cell
CoastCells(cutoff, radius_percent) ==
    LET radius == (radius_percent * Max(width, length)) \div 100
    IN  WaterCells(cutoff) \cap UNION {Disk(e, radius) : e \in ShoreCells}

CategoryCells(where) ==
    IF where = LAND THEN LandCells(DefaultCutoff)
    ELSE IF where = WATER THEN WaterCells(DefaultCutoff)
    ELSE CoastCells(DefaultCutoff, DefaultRadiusPercent)

\* cells of the category that are free in the occupancy mask
CandidateCells(where) == {c \in CategoryCells(where) : mask[c] = 1}

\* half of the rounded radius: max(1, round(r)) // 2
HalfRadius(r2) == Max(1, PyRound(r2)) \div 2

\* candidates outside the half-radius disk of every edge cell of the candidates
EligibleCells(where, r2) ==
    CandidateCells(where)
        \ UNION {Disk(e, HalfRadius(r2)) : e \in EdgeCells(CandidateCells(where))}

\* the pairs (earlier, later) of placed objects
PlacedPairs == {p \in (1 .. Len(objects)) \X (1 .. Len(objects)) : p[1] < p[2]}

\* the latest operation placed an object
JustPlaced == last.op \in {"land", "carrier"} /\ last.placed

\* the latest operation was a find_location call that returned a cell
JustFound == last.op = "find" /\ last.loc # None

----------------------------------------------------------------------------
(* C1 - C8: placement runs (specification Spec) *)

\* C1: for every pair of placed objects A (earlier) and B (later), the cell
\* find_location returned for B is outside A's keep-clear disk: its squared
\* distance to the cell returned for A is greater than the square of the
\* radius A was carved with.
C1_LaterCellOutsideEarlierDisk ==
    \A p \in PlacedPairs :
        Dist2(objects[p[1]].cell, objects[p[2]].cell)
            > objects[p[1]].carved * objects[p[1]].carved

\* C2: immediately after a successful placement the occupancy cell with the
\* grid indices find_location returned is 0, as is every in-grid cell within
\* the object's radius of it.
C2_OccupancyMarkedAtReturnedCell ==
    JustPlaced =>
        LET o == objects[Len(objects)]
        IN  \A c \in Cells :
                Dist2(c, last.loc) <= o.carved * o.carved => mask[c] = 0

C4_OccupancyMonotonic ==
    /\ \A c \in Cells : mask[c] = 1
    /\ [][ /\ \A c \in Cells : mask[c] = 0 => mask'[c] = 0
           /\ (last'.op \in {"find", "land", "carrier"} /\ last'.loc # None)
                 => mask[last'.loc] = 1 ]_vars

\* a search returned a cell while part of the mask was already occupied
C4_Witness == JustFound /\ \E c \in Cells : mask[c] = 0

\* C5: every coordinate find_location returns is an integer pair (x, z) with
\* 0 <= x < width and 0 <= z < length.
C5_ReturnedCellInBounds ==
    (last.op \in {"find", "land", "carrier"} /\ last.loc # None) =>
        /\ DOMAIN last.loc = 1 .. 2
        /\ last.loc[1] \in Int /\ last.loc[2] \in Int
        /\ 0 <= last.loc[1] /\ last.loc[1] < width
        /\ 0 <= last.loc[2] /\ last.loc[2] < length

\* a COAST search returned a cell of a grid that is not square
C5_Witness == JustFound /\ last.where = COAST /\ width # length

\* C6: every record add_object_on_land_random emits has y >= 0, and that y
\* is the terrain height of the cell find_location selected plus the offset.
C6_NoRecordBelowZero ==
    /\ \A i \in 1 .. Len(objects) :
          objects[i].object_type = "Object" => objects[i].location[2] >= 0
    /\ (last.op = "land" /\ last.placed) =>
          LET o == objects[Len(objects)]
          IN  /\ o.cell = last.loc
              /\ o.location[2] = heights[last.loc] + last.y_offset

\* an object stands on a cell below zero, lifted above zero by its offset
C6_Witness == last.op = "land" /\ last.placed /\ heights[last.loc] < 0

----------------------------------------------------------------------------
(* C9: the boundary extractor (specification SpecEdge) *)

\* the grid [[0,0,1],[0,0,1]] and its boundary [[0,1,1],[0,1,1]]
ExampleGrid == [c \in CellsOf(2, 3) |-> IF c[2] = 2 THEN 1 ELSE 0]
ExampleEdges == [c \in CellsOf(2, 3) |-> IF c[2] >= 1 THEN 1 ELSE 0]

\* C9: the boundary extractor returns a grid of the input's shape with
\* values in {0, 1}, 1 exactly at the cells with a horizontal or vertical
\* in-grid neighbour of a different value; [[0,0,1],[0,0,1]] gives
\* [[0,1,1],[0,1,1]]; the input grid is left as it was.
C9_TransitionMask ==
    last.op = "transition" =>
        /\ DOMAIN last.result = DOMAIN arg
        /\ \A c \in Cells :
              /\ last.result[c] \in {0, 1}
              /\ last.result[c] = 1 <=> \E d \in Neighbours(c) : arg[d] # arg[c]
        /\ arg = ExampleGrid => last.result = ExampleEdges
        /\ arg = last.input

\* the extractor has run on [[0,0,1],[0,0,1]]
C9_Witness == last.op = "transition" /\ arg = ExampleGrid

----------------------------------------------------------------------------
(* C10: the coast mask (specification SpecCoast) *)

\* C10: coast_mask(cutoff, p) and land_mask(cutoff) share no cell: every cell
\* that is 1 in the coast mask has height <= cutoff and lies within
\* int(p/100 * max(width, length)) of a boundary cell of the terrain
\* binarized at height zero.
C10_CoastExcludesLand ==
    last.op = "coast" =>
        \A c \in Cells :
            /\ last.result[c] \in {0, 1}
            /\ last.result[c] * get_land_mask(last.cutoff_height)[c] = 0
            /\ last.result[c] = 1 =>
                  /\ heights[c] <= last.cutoff_height
                  /\ c \in CoastCells(last.cutoff_height, last.radius_percent)

\* a coast mask with a coast cell, on a terrain where the flood around the
\* shore also reaches a land cell
C10_Witness ==
    /\ last.op = "coast"
    /\ \E c \in Cells : last.result[c] = 1
    /\ \E d \in LandCells(last.cutoff_height) :
          \E e \in ShoreCells :
              Dist2(d, e) <= coast_radius(last.radius_percent)
                                 * coast_radius(last.radius_percent)

----------------------------------------------------------------------------
(* The land and water masks called on their own *)

\* one call of ObjectHandler._get_land_mask(cutoff_height)
GetLandMask(cutoff_height) ==
    /\ last.op = "init"
    /\ last' = [op |-> "landmask", cutoff_height |-> cutoff_height,
                result |-> get_land_mask(cutoff_height)]
    /\ UNCHANGED <<width, length, heights, mask, objects, calls, failed, arg,
                 map_config, noise_generator, earlier>>

\* one call of ObjectHandler._get_water_mask(cutoff_height)
GetWaterMask(cutoff_height) ==
    /\ last.op = "init"
    /\ last' = [op |-> "watermask", cutoff_height |-> cutoff_height,
                result |-> get_water_mask(cutoff_height)]
    /\ UNCHANGED <<width, length, heights, mask, objects, calls, failed, arg,
                 map_config, noise_generator, earlier>>

NextMasks ==
    \/ \E cutoff_height \in Cutoffs : GetLandMask(cutoff_height)
    \/ \E cutoff_height \in Cutoffs : GetWaterMask(cutoff_height)

SpecMasks == InitCoast /\ [][NextMasks]_vars

\* C11: the land mask is 1 exactly where the height is strictly above the
\* cutoff (a height equal to the cutoff is water) and 0 elsewhere, the water
\* mask is 1 exactly on the other cells and 0 elsewhere, so that every cell
\* is in exactly one of the two; both cover the width x length grid.
C11_LandWaterPartition ==
    /\ last.op = "landmask" =>
          /\ DOMAIN last.result = (0 .. width - 1) \X (0 .. length - 1)
          /\ \A c \in DOMAIN last.result :
                last.result[c] = (IF heights[c] > last.cutoff_height THEN 1 ELSE 0)
    /\ last.op = "watermask" =>
          /\ DOMAIN last.result = (0 .. width - 1) \X (0 .. length - 1)
          /\ \A c \in DOMAIN last.result :
                last.result[c] = (IF heights[c] > last.cutoff_height THEN 0 ELSE 1)

\* a mask was computed on a terrain holding a cell exactly at the cutoff, a
\* cell above it and a cell below it
C11_Witness ==
    /\ last.op \in {"landmask", "watermask"}
    /\ \E c \in Cells : heights[c] = last.cutoff_height
    /\ \E c \in Cells : heights[c] > last.cutoff_height
    /\ \E c \in Cells : heights[c] < last.cutoff_height
    /\ width # length

----------------------------------------------------------------------------
(* The carve called on its own *)

\* centres on, near and outside the grid
Coords == -2 .. MaxDim + 1

\* integer radii from nothing to the whole grid
CarveRadii == 0 .. MaxDim

\* one call of ObjectHandler._update_mask_grid_with_radius(arg, x, z, radius,
\* set_to)
UpdateMaskGridWithRadius(x, z, radius, set_to) ==
    /\ last.op = "init"
    /\ last' = [op |-> "carve", input |-> arg, x |-> x, z |-> z,
                radius |-> radius, set_to |-> set_to,
                written |-> written_indices(x, z, radius),
                result |-> update_mask_grid_with_radius(arg, x, z, radius, set_to)]
    /\ UNCHANGED <<width, length, heights, mask, objects, calls, failed, arg,
                 map_config, noise_generator, earlier>>

NextCarve ==
    \E x \in Coords, z \in Coords, radius \in CarveRadii, set_to \in {0, 1} :
        UpdateMaskGridWithRadius(x, z, radius, set_to)

SpecCarve == InitEdge /\ [][NextCarve]_vars

\* C12: a carve sets to set_to exactly the cells of the grid within the
\* radius of the centre (squared distance at most radius squared) and leaves
\* every other cell as it was; it writes no index outside the grid, whatever
\* the centre, so nothing wraps to the opposite edge.
C12_CarveExactDisk ==
    last.op = "carve" =>
        /\ DOMAIN last.result = Cells
        /\ last.written \subseteq Cells
        /\ \A c \in Cells :
              last.result[c] =
                  (IF Dist2(c, <<last.x, last.z>>) <= last.radius * last.radius
                   THEN last.set_to ELSE last.input[c])

\* a carve whose centre lies outside the grid changed some cells and left
\* others as they were
C12_Witness ==
    /\ last.op = "carve"
    /\ <<last.x, last.z>> \notin Cells
    /\ \E c \in Cells : last.result[c] # last.input[c]
    /\ \E c \in Cells : last.input[c] # last.set_to /\ last.result[c] = last.input[c]

----------------------------------------------------------------------------
(* Radii of the carves *)

\* C13: the occupancy carve of every object placed on land uses the
\* requested radius rounded to the nearest integer and raised to 1, an
\* integer of at least 1, for every requested radius, fractional ones and
\* ones below 1 included.
C13_CarveRadiusRoundedAtLeastOne ==
    \A i \in 1 .. Len(objects) :
        objects[i].object_type = "Object" =>
            /\ objects[i].carved >= 1
            /\ objects[i].carved = Max(1, PyRound(objects[i].required_radius2))

----------------------------------------------------------------------------
(* Failure of the carrier placement *)

\* C14: a carrier placement made when no COAST cell is eligible for its
\* clearance raises: it emits no record and leaves the occupancy mask as it
\* was, and once an operation has raised no further operation runs (nothing
\* changes any more); a carrier placement raises in no other case.
C14_CarrierFailureIsFatal ==
    [][ /\ ~failed
        /\ last'.op = "carrier" =>
              /\ failed' <=> (EligibleCells(COAST, 2 * CarrierRadius) = {})
              /\ failed' => (mask' = mask /\ objects' = objects /\ ~last'.placed)
        /\ failed' => last'.op = "carrier" ]_vars

\* the carrier placement has raised while the run had operations left
C14_Witness ==
    /\ failed
    /\ last.op = "carrier"
    /\ calls < MaxCalls
    /\ \E c \in Cells : heights[c] < 0
    /\ \E c \in Cells : heights[c] > 0

----------------------------------------------------------------------------
(* The 8 x 8 terrain with a water ring *)

\* every cell at height 10 except a border ring two cells wide at -30
RingTerrain ==
    [c \in CellsOf(8, 8) |->
        IF c[1] \in 2 .. 5 /\ c[2] \in 2 .. 5 THEN 10 ELSE -30]

\* a fresh handler on the ring terrain
InitRing ==
    /\ width = 8
    /\ length = 8
    /\ heights = RingTerrain
    /\ arg = None
    /\ Idle

SpecRing == InitRing /\ [][Next]_vars

\* C15: on the ring terrain with a fresh occupancy mask the carrier placement
\* succeeds, at a water cell of the ring next to the land block, with the
\* rotation pointing from that cell towards the grid centre (4, 4).
C15_AnchorPlacedOnRing ==
    (last.op = "carrier" /\ Len(objects) <= 1) =>
        /\ last.placed
        /\ heights[last.loc] = -30
        /\ \E d \in Neighbours(last.loc) : heights[d] = 10
        /\ objects[1].y_rotation = <<2 * (4 - last.loc[2]), 2 * (4 - last.loc[1])>>

----------------------------------------------------------------------------
(* NoiseGenerator: the selections from lists *)

\* longest list handed to a selection
MaxLen == 3

\* largest min_n and max_n handed to a selection
MaxN == 5

\* NoiseGenerator.randint: the values np.random.randint(min, max) can return,
\* max excluded; the empty set when it raises (min >= max)
randint(min, max) == min .. (max - 1)

\* random.sample(in_list, k): the sequences of k distinct positions of a list
\* of list_length elements
random_sample(list_length, k) ==
    {q \in [1 .. k -> 0 .. list_length - 1] :
        \A i \in 1 .. k, j \in 1 .. k : i # j => q[i] # q[j]}

\* the values of k NoiseGenerator.select_random_sublist_from_list can draw
\* once list_length > min_n
sublist_lengths(list_length, min_n, max_n) ==
    IF list_length <= max_n
    THEN IF min_n = list_length THEN {min_n} ELSE randint(min_n, list_length)
    ELSE IF min_n = max_n THEN {min_n} ELSE randint(min_n, max_n)

\* NoiseGenerator.select_random_sublist_from_list on a list of list_length
\* elements: the results it can return, as sequences of positions of in_list
select_random_sublist_from_list(list_length, min_n, max_n) ==
    IF list_length <= min_n
    THEN {[i \in 1 .. Min(list_length, min_n) |-> i - 1]}
    ELSE UNION {random_sample(list_length, k) :
                    k \in sublist_lengths(list_length, min_n, max_n)}

\* a generator on which only selections are called
InitNoise ==
    /\ width = 1
    /\ length = 1
    /\ heights = [c \in CellsOf(1, 1) |-> 0]
    /\ arg = None
    /\ Idle

\* NoiseGenerator.select_random_from_list on a list of list_length elements:
\* the positions of in_list it can return; the empty set when randint raises
select_random_from_list(list_length) == randint(0, list_length)

\* one call of select_random_from_list(in_list) with len(in_list) =
\* list_length: what it returns, kept in last
select_random_from_list_called(list_length) ==
    /\ LET results == select_random_from_list(list_length)
       IN  IF results = {}
           THEN \* randint raises ValueError (low >= high)
                /\ last' = [op |-> "choice", list_length |-> list_length,
                            raised |-> TRUE, result |-> 0]
                /\ failed' = TRUE
           ELSE /\ \E result \in results :
                      last' = [op |-> "choice", list_length |-> list_length,
                               raised |-> FALSE, result |-> result]
                /\ UNCHANGED failed
    /\ UNCHANGED <<mask, objects>>

\* one call of select_random_sublist_from_list(in_list, min_n, max_n) with
\* len(in_list) = list_length: what it returns, kept in last
select_random_sublist_from_list_called(list_length, min_n, max_n) ==
    /\ LET results == select_random_sublist_from_list(list_length, min_n, max_n)
       IN  IF results = {}
           THEN \* randint raises ValueError (low >= high)
                /\ last' = [op |-> "sublist", list_length |-> list_length,
                            min_n |-> min_n, max_n |-> max_n, raised |-> TRUE,
                            lengths |-> {}, result |-> <<>>]
                /\ failed' = TRUE
           ELSE /\ \E result \in results :
                      last' = [op |-> "sublist", list_length |-> list_length,
                               min_n |-> min_n, max_n |-> max_n,
                               raised |-> FALSE,
                               lengths |-> {Len(r) : r \in results},
                               result |-> result]
                /\ UNCHANGED failed
    /\ UNCHANGED <<mask, objects>>

\* NoiseGenerator.select_random_from_list called on its own
SelectRandomFromList(list_length) ==
    /\ last.op = "init"
    /\ select_random_from_list_called(list_length)
    /\ UNCHANGED calls
    /\ Frame

\* NoiseGenerator.select_random_sublist_from_list called on its own
SelectRandomSublistFromList(list_length, min_n, max_n) ==
    /\ last.op = "init"
    /\ select_random_sublist_from_list_called(list_length, min_n, max_n)
    /\ UNCHANGED calls
    /\ Frame

NextNoise ==
    \/ \E list_length \in 0 .. MaxLen : SelectRandomFromList(list_length)
    \/ \E list_length \in 0 .. MaxLen, min_n \in 0 .. MaxN, max_n \in 0 .. MaxN :
          SelectRandomSublistFromList(list_length, min_n, max_n)

SpecNoise == InitNoise /\ [][NextNoise]_vars

\* C16: a sublist selection returns elements of distinct positions of the
\* list; when the list is no longer than min_n it returns the first
\* min(len, min_n) elements in order without raising; otherwise (with
\* min_n <= max_n) the possible lengths are exactly min_n .. min(max_n, len),
\* both ends included.
C16_SublistLengthRange ==
    last.op = "sublist" =>
        LET n == last.list_length
            top == Min(last.max_n, n)
        IN  /\ \A i \in 1 .. Len(last.result) :
                  /\ last.result[i] \in 0 .. n - 1
                  /\ \A j \in 1 .. Len(last.result) :
                        i # j => last.result[i] # last.result[j]
            /\ n <= last.min_n =>
                  /\ ~last.raised
                  /\ last.result = [i \in 1 .. Min(n, last.min_n) |-> i - 1]
            /\ (n > last.min_n /\ last.min_n <= last.max_n) =>
                  /\ ~last.raised
                  /\ Len(last.result) \in last.min_n .. top
                  /\ last.lengths = last.min_n .. top

----------------------------------------------------------------------------
(* Skipped placements *)

\* C19: a placement on land is skipped in exactly two cases, no eligible
\* LAND cell and height + y_offset < 0 at the returned cell; a skipped call
\* raises nothing, emits no record and leaves the occupancy mask as it was,
\* and a call that is not skipped emits exactly one record.
C19_SkipLeavesNoTrace ==
    [][ last'.op = "land" =>
          /\ ~failed'
          /\ (last'.loc = None) <=> (EligibleCells(LAND, last'.r2) = {})
          /\ last'.placed <=>
                (/\ last'.loc # None
                 /\ heights[last'.loc] + last'.y_offset >= 0)
          /\ ~last'.placed => (mask' = mask /\ objects' = objects)
          /\ last'.placed => Len(objects') = Len(objects) + 1 ]_vars

\* after an earlier placement, a call was skipped on its height
C19_Witness ==
    /\ last.op = "land"
    /\ ~last.placed
    /\ last.loc # None
    /\ Len(objects) = 1
    /\ \E c \in Cells : mask[c] = 0

----------------------------------------------------------------------------
(* ObjectHandler.add_scenery *)

\* the list objs of add_scenery, as its runs of equal names: [name] * n
scenery_runs ==
    << <<"troprockcd", 8>>, <<"troprockbd", 7>>, <<"troprockad", 6>>,
       <<"troprockcw", 5>>, <<"troprockaw", 2>>, <<"palm1", 80>>,
       <<"plant1", 30>>, <<"palm2", 50>>, <<"palm3", 25>>,
       <<"rubblea", 5>>, <<"rubbleb", 5>>, <<"rubblec", 5>>,
       <<"rubbled", 5>>, <<"rubblee", 5>> >>

RECURSIVE runs_length(_)
\* the length of a list made of the given runs
runs_length(runs) ==
    IF runs = <<>> THEN 0 ELSE Head(runs)[2] + runs_length(Tail(runs))

RECURSIVE runs_entry(_, _)
\* the i-th entry, counted from 1, of a list made of the given runs
runs_entry(runs, i) ==
    IF i <= Head(runs)[2] THEN Head(runs)[1]
    ELSE runs_entry(Tail(runs), i - Head(runs)[2])

\* len(objs) of add_scenery
objs_length == runs_length(scenery_runs)

\* twice the default required_radius of add_object_on_land_random
DefaultRadius2 == 2

\* twice the required_radius add_scenery passes (required_radius=2)
SceneryRadius2 == 4

\* flat terrains of every height, one with no land at all, and a flat land
\* terrain on a grid one cell larger
SceneryTerrains ==
    {RectTerrain(MaxDim, MaxDim, h, h, 0, 0, 0, 0) : h \in Heights}
    \cup {RectTerrain(MaxDim + 1, MaxDim + 1, 10, 10, 0, 0, 0, 0)}

\* a fresh handler on which add_scenery is called
InitScenery ==
    /\ \E t \in SceneryTerrains :
          /\ width = Cardinality({c[1] : c \in DOMAIN t})
          /\ length = Cardinality({c[2] : c \in DOMAIN t})
          /\ heights = t
    /\ arg = None
    /\ Idle

\* one turn of the loop "for obj in objs" of add_scenery; calls is the number
\* of turns made
AddScenery ==
    /\ ~failed
    /\ calls < objs_length
    /\ add_object_on_land_random(runs_entry(scenery_runs, calls + 1), NEUTRAL, 0,
                                 SceneryRadius2)
    /\ calls' = calls + 1
    /\ Frame

NextScenery == AddScenery

\* add_scenery runs on: a loop turn that can be made is made
SpecScenery == InitScenery /\ [][NextScenery]_vars /\ WF_vars(NextScenery)

\* C20: add_scenery calls add_object_on_land_random once for each entry of
\* its list, in order; every record it emits carries the type of the entry
\* of that turn, team NEUTRAL and radius 2, so there is at most one record
\* per entry; on every terrain, one with no land included, the loop raises
\* nothing and ends after the last entry.
C20_SceneryOncePerInstance ==
    /\ [][ /\ calls' = calls + 1
           /\ last'.op = "land"
           /\ last'.r2 = 4
           /\ ~failed'
           /\ IF last'.placed
              THEN /\ Len(objects') = Len(objects) + 1
                   /\ objects'[Len(objects')].object_type =
                         runs_entry(scenery_runs, calls')
                   /\ objects'[Len(objects')].team = NEUTRAL
                   /\ objects'[Len(objects')].required_radius2 = 4
                   /\ SubSeq(objects', 1, Len(objects)) = objects
              ELSE objects' = objects ]_vars
    /\ [](Len(objects) <= calls /\ calls <= 238)
    /\ <>[](calls = 238 /\ ~failed)

\* the loop has ended after placing several objects and skipping others
C20_Witness ==
    /\ calls = objs_length
    /\ last.op = "land"
    /\ ~last.placed
    /\ Len(objects) >= 2

----------------------------------------------------------------------------
(* Seeded runs: the draws made by the seeded global generators *)

\* seeds a configuration can name
Seeds == {0, 1}

\* states the global generators can be in before they are seeded
Entropy == {2, 3}

\* calls of one run, the construction of the generator included
MaxSeededCalls == 3

\* the state of a generator is what it was seeded with and the number of
\* draws made since
advance(state) == <<state[1], state[2] + 1>>

\* the next output of a generator, a fixed function of its state
bits(state) == 7 * state[1] + 3 * state[2] + 1

\* NoiseGenerator.__post_init__ without the call np.random.seed: np.random
\* stays as the process found it
new_noise_generator_np_unseeded(seed, prior) ==
    [constructed |-> TRUE, seed |-> seed, np |-> <<prior, 0>>, py |-> <<seed, 0>>]

\* NoiseGenerator(seed=seed): random.seed(seed) and np.random.seed(seed)
new_noise_generator(seed, prior) ==
    [constructed |-> TRUE, seed |-> seed, np |-> <<seed, 0>>, py |-> <<seed, 0>>]

\* np.random.randint(min, max) drawn from the state of np.random
np_randint(state, min, max) == min + (bits(state) % (max - min))

\* d comes before c in the order "for x ... for z ..."
Before(d, c) == d[1] < c[1] \/ (d[1] = c[1] /\ d[2] < c[2])

\* possible_values[k] of select_random_entry_from_2d_array
entry_at(S, k) ==
    CHOOSE c \in S : Cardinality({d \in S : Before(d, c)}) = k

\* the search found no location
is_none(S) == \E loc \in S : loc = None

\* what _find_location returns when its results are S and the draw comes
\* from the seeded np.random
seeded_entry(S) ==
    IF is_none(S) THEN None
    ELSE entry_at(S, np_randint(noise_generator.np, 0, Cardinality(S)))

\* the generators after a search whose results are S: one draw when an
\* entry was selected
after_entry(S) ==
    IF is_none(S) THEN noise_generator
    ELSE [noise_generator EXCEPT !.np = advance(@)]

\* whether select_random_sublist_from_list draws its length with randint
draws_length(list_length, min_n, max_n) ==
    /\ list_length > min_n
    /\ IF list_length <= max_n THEN min_n # list_length ELSE min_n # max_n

\* the length select_random_sublist_from_list draws from the seeded np.random
seeded_length(list_length, min_n, max_n) ==
    IF list_length <= max_n
    THEN IF min_n = list_length THEN min_n
         ELSE np_randint(noise_generator.np, min_n, list_length)
    ELSE IF min_n = max_n THEN min_n
         ELSE np_randint(noise_generator.np, min_n, max_n)

RECURSIVE seeded_sample(_, _, _)
\* random.sample drawn from the state of random: k picks, each among the
\* positions not picked yet
seeded_sample(remaining, k, state) ==
    IF k = 0 THEN <<>>
    ELSE LET i == 1 + (bits(state) % Len(remaining))
         IN  <<remaining[i]>>
             \o seeded_sample(SubSeq(remaining, 1, i - 1)
                                \o SubSeq(remaining, i + 1, Len(remaining)),
                              k - 1, advance(state))

\* what select_random_sublist_from_list returns from the seeded generators
seeded_sublist(list_length, min_n, max_n) ==
    IF list_length <= min_n
    THEN [i \in 1 .. Min(list_length, min_n) |-> i - 1]
    ELSE seeded_sample([i \in 1 .. list_length |-> i - 1],
                       seeded_length(list_length, min_n, max_n),
                       noise_generator.py)

\* the generators after select_random_sublist_from_list returned result
after_sublist(list_length, min_n, max_n, result) ==
    IF list_length <= min_n THEN noise_generator
    ELSE [noise_generator EXCEPT
            !.np = IF draws_length(list_length, min_n, max_n)
                   THEN advance(@) ELSE @,
            !.py = <<@[1], @[2] + Len(result)>>]

\* heights of the terrains of the seeded runs: water and land
SeededHeights == {-30, 10}

\* terrains of the seeded runs: one rectangle on a background
SeededTerrains(w, l) ==
    {RectTerrain(w, l, hb, hr, 1, w - 1, 0, l - 2) :
        hb \in SeededHeights, hr \in SeededHeights}

\* a process about to run generate_new_map with a configuration
InitSeeded ==
    /\ \/ /\ width = MaxDim
          /\ length = MaxDim
          /\ heights \in SeededTerrains(width, length)
       \/ /\ width = StripWidth
          /\ length = 1
          /\ heights = StripTerrain
    /\ mask = [c \in CellsOf(width, length) |-> 1]
    /\ objects = <<>>
    /\ last = [op |-> "init"]
    /\ calls = 0
    /\ failed = FALSE
    /\ arg = None
    /\ map_config \in [seed : {-1} \cup Seeds, saved : {FALSE}]
    /\ noise_generator = [constructed |-> FALSE]
    /\ earlier = [phase |-> 1, log |-> <<>>]

\* the run goes on with its generator constructed
SeededRunning ==
    /\ ~failed
    /\ calls < MaxSeededCalls
    /\ noise_generator.constructed
    /\ last.op # "save"

\* the second run issues the calls of the first, in order
Replays(call) ==
    \/ earlier.phase = 1
    \/ /\ calls < Len(earlier.log)
       /\ earlier.log[calls + 1].call = call

\* the first run is kept: each call with what it returned and left
Logged(call) ==
    /\ calls' = calls + 1
    /\ earlier' =
          IF earlier.phase = 1
          THEN [earlier EXCEPT !.log = Append(@,
                  [call |-> call, out |-> <<last', mask', objects', failed'>>])]
          ELSE earlier
    /\ UNCHANGED <<width, length, heights, arg>>

\* generate_new_map, "Initialize noise generator": NoiseGenerator() when the
\* configured seed is -1, NoiseGenerator(seed=map_config.seed) otherwise
GenerateInit ==
    /\ ~failed
    /\ ~noise_generator.constructed
    /\ calls = 0
    /\ Replays(<<"construct">>)
    /\ IF map_config.seed = -1
       THEN \* the dataclass field seed has no default: TypeError
            /\ failed' = TRUE
            /\ last' = [op |-> "construct", seed |-> map_config.seed,
                        raised |-> TRUE]
            /\ UNCHANGED noise_generator
       ELSE /\ \E prior \in Entropy :
                  noise_generator' = new_noise_generator(map_config.seed, prior)
            /\ last' = [op |-> "construct", seed |-> map_config.seed,
                        raised |-> FALSE]
            /\ UNCHANGED failed
    /\ UNCHANGED <<mask, objects, map_config>>
    /\ Logged(<<"construct">>)

\* NoiseGenerator.get_seed, called by generate_new_map: the seed the
\* generator was constructed with
get_seed == noise_generator.seed

\* generate_new_map, "map_config.seed = noise_generator.get_seed()" and
\* to_json: the seed of the generator is written into the configuration,
\* which is saved; it is the last step of the run
GenerateSave ==
    /\ SeededRunning
    /\ Replays(<<"save">>)
    /\ map_config' = [map_config EXCEPT !.seed = get_seed, !.saved = TRUE]
    /\ last' = [op |-> "save", seed |-> get_seed, raised |-> FALSE]
    /\ UNCHANGED <<mask, objects, failed, noise_generator>>
    /\ Logged(<<"save">>)

\* _find_location with its entry drawn from the seeded generator
SeededFindLocation(where, r2) ==
    /\ SeededRunning
    /\ Replays(<<"find", where, r2>>)
    /\ find_location_called(where, r2)
    /\ \E S \in {find_location(where, r2)} :
          /\ last'.loc = seeded_entry(S)
          /\ noise_generator' = after_entry(S)
    /\ UNCHANGED map_config
    /\ Logged(<<"find", where, r2>>)

\* add_carrier with its location drawn from the seeded generator
SeededAddCarrier ==
    /\ SeededRunning
    /\ Replays(<<"carrier">>)
    /\ add_carrier
    /\ \E S \in {find_location(COAST, 2 * CarrierRadius)} :
          /\ last'.loc = seeded_entry(S)
          /\ noise_generator' = after_entry(S)
    /\ UNCHANGED map_config
    /\ Logged(<<"carrier">>)

\* add_object_on_land_random with its location drawn from the seeded
\* generator
SeededAddObjectOnLandRandom(y_offset, r2) ==
    /\ SeededRunning
    /\ Replays(<<"land", y_offset, r2>>)
    /\ add_object_on_land_random("Object", ENEMY, y_offset, r2)
    /\ \E S \in {find_location(LAND, r2)} :
          /\ last'.loc = seeded_entry(S)
          /\ noise_generator' = after_entry(S)
    /\ UNCHANGED map_config
    /\ Logged(<<"land", y_offset, r2>>)

\* select_random_from_list with its index drawn from the seeded generator
SeededSelectRandomFromList(list_length) ==
    /\ SeededRunning
    /\ Replays(<<"choice", list_length>>)
    /\ select_random_from_list_called(list_length)
    /\ ~last'.raised =>
          last'.result = np_randint(noise_generator.np, 0, list_length)
    /\ noise_generator' = IF last'.raised THEN noise_generator
                          ELSE [noise_generator EXCEPT !.np = advance(@)]
    /\ UNCHANGED map_config
    /\ Logged(<<"choice", list_length>>)

\* select_random_sublist_from_list with its length and its sample drawn from
\* the seeded generators
SeededSelectRandomSublistFromList(list_length, min_n, max_n) ==
    /\ SeededRunning
    /\ Replays(<<"sublist", list_length, min_n, max_n>>)
    /\ select_random_sublist_from_list_called(list_length, min_n, max_n)
    /\ ~last'.raised =>
          last'.result = seeded_sublist(list_length, min_n, max_n)
    /\ noise_generator' =
          IF last'.raised THEN noise_generator
          ELSE after_sublist(list_length, min_n, max_n, last'.result)
    /\ UNCHANGED map_config
    /\ Logged(<<"sublist", list_length, min_n, max_n>>)

\* generate_new_map is run again with the same configuration and terrain, in
\* a process whose generators are in any state: a new handler, no generator
RunAgain ==
    /\ earlier.phase = 1
    /\ failed \/ calls = MaxSeededCalls \/ last.op = "save"
    /\ mask' = [c \in CellsOf(width, length) |-> 1]
    /\ objects' = <<>>
    /\ last' = [op |-> "init"]
    /\ calls' = 0
    /\ failed' = FALSE
    /\ noise_generator' = [constructed |-> FALSE]
    /\ earlier' = [earlier EXCEPT !.phase = 2]
    /\ map_config' = [map_config EXCEPT !.saved = FALSE]
    /\ UNCHANGED <<width, length, heights, arg>>

NextSeeded ==
    \/ GenerateInit
    \/ GenerateSave
    \/ \E where \in LocationEnum, r2 \in Radii2 : SeededFindLocation(where, r2)
    \/ SeededAddCarrier
    \/ \E y_offset \in Offsets, r2 \in Radii2 :
          SeededAddObjectOnLandRandom(y_offset, r2)
    \/ \E list_length \in 0 .. MaxLen : SeededSelectRandomFromList(list_length)
    \/ \E list_length \in 0 .. MaxLen, min_n \in {0, 1}, max_n \in {1, 2} :
          SeededSelectRandomSublistFromList(list_length, min_n, max_n)
    \/ RunAgain

SpecSeeded == InitSeeded /\ [][NextSeeded]_vars

C18_SeedRetrievable ==
    /\ last.op = "construct" =>
          /\ ~failed
          /\ noise_generator.constructed
          /\ noise_generator.seed \in Nat
    /\ last.op = "save" =>
          /\ ~failed
          /\ map_config.saved
          /\ map_config.seed = noise_generator.seed

----------------------------------------------------------------------------
(* C21: patrol points (specification SpecPatrol) *)

\* patrol points asked for in one call
MaxPatrolPoints == 2

\* the radius of a patrol point search, in halves: radius 1
PatrolRadius2 == 2

\* a handler on a terrain of MaxDim x MaxDim or of 2 x MaxDim cells
InitPatrol ==
    /\ width \in {2, MaxDim}
    /\ length = MaxDim
    /\ heights \in SeededTerrains(width, length)
    /\ Idle
    /\ arg = None

\* an object is placed before the patrol points are asked for
PlaceBeforePatrol(y_offset, r2) ==
    /\ last.op # "patrol"
    /\ AddObjectOnLandRandom(y_offset, r2)

\* create_patrol_points(n_points) is entered: no point collected yet
CreatePatrolPoints(n_points) ==
    /\ ~failed
    /\ last.op # "patrol"
    /\ last' = [op |-> "patrol", n_points |-> n_points, points |-> <<>>,
                done |-> FALSE]
    /\ UNCHANGED <<mask, objects, failed, calls>>
    /\ Frame

\* one turn of the loop of create_patrol_points: it returns when n_points
\* points are collected or when the search finds no location, and otherwise
\* keeps the location found; nothing is placed and nothing is marked
create_patrol_points_turn ==
    /\ last.op = "patrol"
    /\ ~last.done
    /\ IF Len(last.points) >= last.n_points
       THEN last' = [last EXCEPT !.done = TRUE]
       ELSE \E loc \in find_location(LAND, PatrolRadius2) :
               IF loc = None
               THEN last' = [last EXCEPT !.done = TRUE]
               ELSE last' = [last EXCEPT !.points = Append(@, loc)]
    /\ UNCHANGED <<mask, objects, failed>>

\* a turn of the loop when the draws are left open
create_patrol_points_step ==
    /\ create_patrol_points_turn
    /\ UNCHANGED calls
    /\ Frame

NextPatrol ==
    \/ \E y_offset \in Offsets, r2 \in Radii2 : PlaceBeforePatrol(y_offset, r2)
    \/ \E n_points \in 0 .. MaxPatrolPoints : CreatePatrolPoints(n_points)
    \/ create_patrol_points_step

SpecPatrol ==
    InitPatrol /\ [][NextPatrol]_vars /\ WF_vars(create_patrol_points_step)

\* C21: create_patrol_points(n) returns: once entered it reaches its end; the
\* points it holds are at most n, each a LAND cell, fewer than n at the end
\* only when the search has no location to report; it raises nothing, adds
\* no placement record and leaves the occupancy mask as it was.
C21_PatrolPointsTerminate ==
    /\ [](last.op = "patrol" =>
            /\ ~failed
            /\ Len(last.points) <= last.n_points
            /\ \A i \in 1 .. Len(last.points) :
                  last.points[i] \in LandCells(DefaultCutoff)
            /\ (last.done /\ Len(last.points) < last.n_points) =>
                  EligibleCells(LAND, PatrolRadius2) = {})
    /\ [][last'.op = "patrol" => mask' = mask /\ objects' = objects]_vars
    /\ (last.op = "patrol") ~> (last.op = "patrol" /\ last.done)

\* a call returned all the points asked for on a map where an object stands
C21_Witness ==
    /\ last.op = "patrol"
    /\ last.done
    /\ Len(last.points) = MaxPatrolPoints
    /\ Len(objects) >= 1
    /\ \E c \in Cells : mask[c] = 0

\* a call returned no point although points were asked for
C21_ShortfallWitness ==
    /\ last.op = "patrol"
    /\ last.done
    /\ last.n_points > 0
    /\ last.points = <<>>
    /\ LandCells(DefaultCutoff) # {}

----------------------------------------------------------------------------
(* C22: the arrays a search writes to (specification SpecReadOnly) *)

\* the array bound to mask by "mask = self._get_object_mask()" followed by
\* "mask *= where_mask": the cached array itself
carved_array_in_place(where, r2) == "cached"

\* the array bound to mask by "mask = where_mask * self._get_object_mask()",
\* on which the erosion loop writes: the product, a new array
carved_array(where, r2) == "product"

\* the array binarized without ".copy()": the height array itself
binarized_array_no_copy(where) == "heights"

\* the array _get_coast_mask binarizes, "_get_height_2d_array().copy()":
\* a copy; the other categories binarize nothing
binarized_array(where) == IF where = COAST THEN "copy" ELSE "none"

\* self._cached_object_mask after a search: the erosion loop writes in place
\* on the array carved_array names
cached_object_mask_after(where, r2) ==
    IF carved_array(where, r2) = "cached" THEN eroded_mask(where, r2) ELSE mask

\* the height array after a search: the two assignments of _get_coast_mask
\* write in place on the array binarized_array names
height_array_after(where) ==
    IF binarized_array(where) = "heights" THEN binary_terrain ELSE heights

\* one call of _find_location with the arrays it writes to
find_location_in_place(where, r2) ==
    /\ \E loc \in find_location(where, r2) :
          last' = [op |-> "find", where |-> where, r2 |-> r2, loc |-> loc]
    /\ mask' = cached_object_mask_after(where, r2)
    /\ heights' = height_array_after(where)
    /\ UNCHANGED <<objects, failed>>

\* a handler on a terrain of MaxDim x MaxDim or of 2 x MaxDim cells
InitReadOnly ==
    /\ width \in {2, MaxDim}
    /\ length = MaxDim
    /\ heights \in SmallTerrains(width, length)
    /\ Idle
    /\ arg = None

\* an object is placed before the search
PlaceBeforeFind(y_offset, r2) == AddObjectOnLandRandom(y_offset, r2)

\* a search on the handler as the placements left it
FindLocationInPlace(where, r2) ==
    /\ Running
    /\ find_location_in_place(where, r2)
    /\ calls' = calls + 1
    /\ UNCHANGED <<width, length, arg, map_config, noise_generator, earlier>>

NextReadOnly ==
    \/ \E y_offset \in Offsets, r2 \in Radii2 : PlaceBeforeFind(y_offset, r2)
    \/ \E where \in LocationEnum, r2 \in Radii2 : FindLocationInPlace(where, r2)

SpecReadOnly == InitReadOnly /\ [][NextReadOnly]_vars

C22_NoLocationWitness ==
    /\ last.op = "find"
    /\ last.where = COAST
    /\ last.loc = None
    /\ CandidateCells(COAST) # {}

----------------------------------------------------------------------------
(* C23: the half-radius erosion (specification Spec) *)

\* C23: around a cell returned by a search of radius r, every in-grid cell
\* within max(1, round(r)) // 2 is a candidate (of the category and free in
\* the occupancy mask); the cell itself and its in-grid horizontal and
\* vertical neighbours are candidates, so the cell is no boundary cell of
\* the candidate region.
C23_HalfRadiusDiskIsCandidate ==
    JustFound =>
        LET candidates == CandidateCells(last.where)
        IN  /\ Disk(last.loc, HalfRadius(last.r2)) \subseteq candidates
            /\ last.loc \in candidates
            /\ Neighbours(last.loc) \subseteq candidates
            /\ last.loc \notin EdgeCells(candidates)

\* a search of half radius 1 returned a cell although an object stands on
\* the map and the candidates are not the whole grid
C23_Witness ==
    /\ JustFound
    /\ HalfRadius(last.r2) >= 1
    /\ Len(objects) >= 1
    /\ \E c \in Cells : mask[c] = 0
    /\ Neighbours(last.loc) # {}

----------------------------------------------------------------------------
(* generate_new_map, step by step (specification SpecGenerate) *)

\* the event reported by complete_callback()
Complete == "complete_callback"

\* the draws ConstructionManager may make, at most
MaxConstructionDraws == 2

\* the steps with the construction and the starting EJ drawn before the
\* objects
step_order_construction_first ==
    <<"start", "construct", "construction", "ej", "shells", "carrier",
      "zones", "scenery", "patrol", "flyers", "save", "finish">>

\* the steps of generate_new_map in the order of its statements
step_order ==
    <<"start", "construct", "shells", "carrier", "zones", "scenery",
      "patrol", "flyers", "construction", "ej", "save", "finish">>

\* the run is about to execute this step
at(step) ==
    /\ ~failed
    /\ calls < Len(step_order)
    /\ step_order[calls + 1] = step

\* a run whose finally clause does nothing
finally_skipped(logger) == logger

\* the finally clause: the logger, when set up, is closed
finally_clause(logger) == IF logger # "none" THEN "closed" ELSE logger

\* noise_generator.randint(min, max) of the run
draw(min, max) == np_randint(noise_generator.np, min, max)

\* the generator after k draws of randint
drawn(k) == [noise_generator EXCEPT !.np = <<@[1], @[2] + k>>]

\* the configurations: a seed, a starting EJ (-1: drawn) and the
\* construction include lists (0: empty, 1: some entries)
Configs ==
    [seed : {-1} \cup Seeds, starting_ej : {-1, 4000}, include : {0, 1},
     saved : {FALSE}]

\* what the run has reported and produced besides the placement records
NoOutput ==
    [events |-> <<>>, logger |-> "none", files |-> FALSE, shells |-> 0,
     zones |-> <<>>, patrol |-> <<>>, cash |-> 0, i |-> 0, n |-> 0]

\* generate_new_map is called on a terrain with a configuration
InitGenerate ==
    /\ \/ /\ width = MaxDim
          /\ length = MaxDim
          /\ heights \in SeededTerrains(width, length)
       \/ /\ width = StripWidth
          /\ length = 1
          /\ heights = StripTerrain
    /\ mask = [c \in CellsOf(width, length) |-> 1]
    /\ objects = <<>>
    /\ last = [op |-> "init"]
    /\ calls = 0
    /\ failed = FALSE
    /\ arg = NoOutput
    /\ map_config \in Configs
    /\ noise_generator = [constructed |-> FALSE]
    /\ earlier = [phase |-> 1, config |-> map_config, level |-> <<>>]

\* what no step changes
Terrain == UNCHANGED <<width, length, heights, earlier>>

\* progress_callback("Starting...") and setup_logger
GenStart ==
    /\ at("start")
    /\ arg' = [arg EXCEPT !.events = Append(@, "Starting..."),
                          !.logger = "open"]
    /\ last' = [op |-> "start"]
    /\ calls' = calls + 1
    /\ UNCHANGED <<mask, objects, failed, map_config, noise_generator>>
    /\ Terrain

\* "Initialize noise generator": NoiseGenerator() raises TypeError when the
\* configured seed is -1
GenConstruct ==
    /\ at("construct")
    /\ IF map_config.seed = -1
       THEN /\ failed' = TRUE
            /\ arg' = [arg EXCEPT !.logger = finally_clause(@)]
            /\ UNCHANGED noise_generator
       ELSE /\ \E prior \in Entropy :
                  noise_generator' = new_noise_generator(map_config.seed, prior)
            /\ UNCHANGED <<failed, arg>>
    /\ last' = [op |-> "construct"]
    /\ calls' = calls + 1
    /\ UNCHANGED <<mask, objects, map_config>>
    /\ Terrain

\* steps 2 to 4: the files, the palette and carrier_shells = randint(1, 4)
GenShells ==
    /\ at("shells")
    /\ arg' = [arg EXCEPT
                 !.events = @ \o <<"Cleaning existing files",
                                   "Importing common data",
                                   "Generating palette", "Loading map logic">>,
                 !.shells = draw(1, 4)]
    /\ noise_generator' = drawn(1)
    /\ last' = [op |-> "shells"]
    /\ calls' = calls + 1
    /\ UNCHANGED <<mask, objects, failed, map_config>>
    /\ Terrain

\* step 5: the carrier is added; no location raises TypeError
GenCarrier ==
    /\ at("carrier")
    /\ add_carrier
    /\ \E S \in {find_location(COAST, 2 * CarrierRadius)} :
          /\ last'.loc = seeded_entry(S)
          /\ noise_generator' = after_entry(S)
    /\ arg' = [arg EXCEPT
                 !.events = Append(@, "Object initalisation"),
                 !.logger = IF failed' THEN finally_clause(@) ELSE @]
    /\ calls' = calls + 1
    /\ UNCHANGED map_config
    /\ Terrain

\* steps 6 to 9: the numbers of enemy bases and of scrap zones, each
\* randint(1, 5) when the configuration leaves them open
GenZones ==
    /\ at("zones")
    /\ arg' = [arg EXCEPT
                 !.events = @ \o <<"Creating default zones",
                                   "Creating enemy base zones",
                                   "Creating scrap zones",
                                   "Processing zones (texturing, flattening, populating)">>,
                 !.zones = <<draw(1, 5),
                             np_randint(advance(noise_generator.np), 1, 5)>>]
    /\ noise_generator' = drawn(2)
    /\ last' = [op |-> "zones"]
    /\ calls' = calls + 1
    /\ UNCHANGED <<mask, objects, failed, map_config>>
    /\ Terrain

\* step 10, add_scenery: one entry of the list per turn
GenScenery ==
    /\ at("scenery")
    /\ add_object_on_land_random(runs_entry(scenery_runs, arg.i + 1), NEUTRAL,
                                 0, SceneryRadius2)
    /\ \E S \in {find_location(LAND, SceneryRadius2)} :
          /\ last'.loc = seeded_entry(S)
          /\ noise_generator' = after_entry(S)
    /\ arg' = [arg EXCEPT
                 !.events = IF arg.i = 0
                            THEN Append(@, "Adding other objects...") ELSE @,
                 !.i = IF arg.i + 1 = objs_length THEN 0 ELSE arg.i + 1]
    /\ calls' = IF arg.i + 1 = objs_length THEN calls + 1 ELSE calls
    /\ UNCHANGED map_config
    /\ Terrain

\* create_patrol_points(n_points=noise_generator.randint(3, 7)) is entered
GenPatrolEnter ==
    /\ at("patrol")
    /\ last.op # "patrol"
    /\ last' = [op |-> "patrol", n_points |-> draw(3, 7), points |-> <<>>,
                done |-> FALSE]
    /\ noise_generator' = drawn(1)
    /\ UNCHANGED <<mask, objects, failed, calls, arg, map_config>>
    /\ Terrain

\* one turn of the loop of create_patrol_points, its location drawn from
\* the generator; at the end the points go to the patrol record
GenPatrolTurn ==
    /\ at("patrol")
    /\ create_patrol_points_turn
    /\ \E S \in {find_location(LAND, PatrolRadius2)} :
          IF Len(last'.points) > Len(last.points)
          THEN /\ last'.points[Len(last'.points)] = seeded_entry(S)
               /\ noise_generator' = after_entry(S)
          ELSE UNCHANGED noise_generator
    /\ arg' = IF last'.done THEN [arg EXCEPT !.patrol = last'.points] ELSE arg
    /\ calls' = IF last'.done THEN calls + 1 ELSE calls
    /\ UNCHANGED map_config
    /\ Terrain

\* "for _ in range(noise_generator.randint(3, 7))": the number of flyers
GenFlyersEnter ==
    /\ at("flyers")
    /\ arg.n = 0
    /\ arg' = [arg EXCEPT !.n = draw(3, 7)]
    /\ noise_generator' = drawn(1)
    /\ last' = [op |-> "flyers"]
    /\ UNCHANGED <<mask, objects, failed, calls, map_config>>
    /\ Terrain

\* one flyer: add_object_on_land_random("MediumFlyer", team=7,
\* required_radius=4, y_offset=15)
GenFlyer ==
    /\ at("flyers")
    /\ arg.n > 0
    /\ add_object_on_land_random("MediumFlyer", 7, 15, 8)
    /\ \E S \in {find_location(LAND, 8)} :
          /\ last'.loc = seeded_entry(S)
          /\ noise_generator' = after_entry(S)
    /\ arg' = [arg EXCEPT
                 !.i = IF arg.i + 1 = arg.n THEN 0 ELSE arg.i + 1,
                 !.n = IF arg.i + 1 = arg.n THEN 0 ELSE arg.n]
    /\ calls' = IF arg.i + 1 = arg.n THEN calls + 1 ELSE calls
    /\ UNCHANGED map_config
    /\ Terrain

\* steps 11 and 12: the minimap and the construction availability, which
\* draws from the generator as the include lists make it
GenConstruction ==
    /\ at("construction")
    /\ \E k \in 0 .. MaxConstructionDraws :
          /\ noise_generator' = drawn(k)
          /\ last' = [op |-> "construction", draws |-> k,
                      include |-> map_config.include]
    /\ arg' = [arg EXCEPT
                 !.events = @ \o <<"Generating minimap",
                                   "Selecting vehicles & addons">>]
    /\ calls' = calls + 1
    /\ UNCHANGED <<mask, objects, failed, map_config>>
    /\ Terrain

\* "Set EJ if not already set by configuration"
GenEJ ==
    /\ at("ej")
    /\ IF map_config.starting_ej = -1
       THEN /\ arg' = [arg EXCEPT !.cash = draw(12, 32) * 250]
            /\ noise_generator' = drawn(1)
       ELSE UNCHANGED <<arg, noise_generator>>
    /\ last' = [op |-> "ej"]
    /\ calls' = calls + 1
    /\ UNCHANGED <<mask, objects, failed, map_config>>
    /\ Terrain

\* steps 13 and 14: the scripts, the files, the seed and the configuration
\* are saved and the logger is closed
GenSave ==
    /\ at("save")
    /\ arg' = [arg EXCEPT
                 !.events = @ \o <<"Finalizing scripts and triggers",
                                   "Saving all files">>,
                 !.files = TRUE,
                 !.logger = "closed"]
    /\ map_config' = [map_config EXCEPT !.seed = get_seed, !.saved = TRUE]
    /\ last' = [op |-> "save"]
    /\ calls' = calls + 1
    /\ UNCHANGED <<mask, objects, failed, noise_generator>>
    /\ Terrain

\* progress_callback("Done"), complete_callback() and the finally clause
GenFinish ==
    /\ at("finish")
    /\ arg' = [arg EXCEPT
                 !.events = @ \o <<"Done", Complete>>,
                 !.logger = finally_clause(@)]
    /\ last' = [op |-> "finish"]
    /\ calls' = calls + 1
    /\ UNCHANGED <<mask, objects, failed, map_config, noise_generator>>
    /\ Terrain

\* the run is over: it raised or it executed its last statement
RunOver == failed \/ calls = Len(step_order)

\* the anchor position, the zones, the placement records and the patrol
\* points of the run
LevelData == <<objects, arg.zones, arg.patrol, failed>>

\* generate_new_map is called again on the same terrain with the same seed
\* and any starting EJ and include lists
GenerateAgain ==
    /\ earlier.phase = 1
    /\ RunOver
    /\ earlier' = [phase |-> 2, config |-> earlier.config, level |-> LevelData]
    /\ \E c \in Configs :
          /\ c.seed = earlier.config.seed
          /\ map_config' = c
    /\ mask' = [c \in CellsOf(width, length) |-> 1]
    /\ objects' = <<>>
    /\ last' = [op |-> "init"]
    /\ calls' = 0
    /\ failed' = FALSE
    /\ arg' = NoOutput
    /\ noise_generator' = [constructed |-> FALSE]
    /\ UNCHANGED <<width, length, heights>>

NextGenerate ==
    \/ GenStart
    \/ GenConstruct
    \/ GenShells
    \/ GenCarrier
    \/ GenZones
    \/ GenScenery
    \/ GenPatrolEnter
    \/ GenPatrolTurn
    \/ GenFlyersEnter
    \/ GenFlyer
    \/ GenConstruction
    \/ GenEJ
    \/ GenSave
    \/ GenFinish
    \/ GenerateAgain

SpecGenerate == InitGenerate /\ [][NextGenerate]_vars

Reported(event) == {i \in 1 .. Len(arg.events) : arg.events[i] = event}

C25_FailureWitness ==
    /\ failed
    /\ last.op = "carrier"
    /\ arg.logger = "closed"
    /\ Len(arg.events) >= 2

====
